---- MODULE Spec2Model ----
(***************************************************************************)
(* A model of the battle logic of python_tactics/scenes.py (GameScene):    *)
(* the turn / selection / action state machine driven by key presses, the  *)
(* diamond range computation, occupancy checks and combat resolution.      *)
(*                                                                         *)
(* Cells are pairs <<column, row>> as returned by Map.get_row_column.      *)
(* Characters are identified by the numbers 1..4; a character object is    *)
(* the record chars[u].  Python's None is the number 0 (NoCharacter).      *)
(* Python lists are sequences, python index i is TLA+ index i + 1.         *)
(*                                                                         *)
(* characters.py, map.py and util.py are not part of the sources at hand:  *)
(* what the scene needs of them (the characters' statistics, the starting  *)
(* positions, Character.hit and Character.move_to) is modelled from the    *)
(* specification and marked so in the definitions below.                   *)
(*                                                                         *)
(* ESCAPE in SELECT_MODE opens the pause menu (InGameMenuScene), which     *)
(* neither reads nor writes a field of the battle and hands the scene back *)
(* as it was; keys without a handler do nothing.  Both are stuttering      *)
(* steps here.  Drawing, sound and the camera are left out.                *)
(***************************************************************************)
EXTENDS Integers, Sequences, FiniteSets, TLC

VARIABLES
    MAP_WIDTH,           \* GameScene.MAP_WIDTH  (columns of the grid)
    MAP_HEIGHT,          \* GameScene.MAP_HEIGHT (rows of the grid)
    chars,               \* the character objects: position and health
    players,             \* self.players: the two rosters, lists of characters
    current_turn,        \* self.current_turn
    selected,            \* self.selected: the highlighted cell
    selected_character,  \* self.selected_character
    mode,                \* self.mode
    cursor_pos,          \* self.cursor_pos: the action menu's cursor
    movement_hilight,    \* self.movement_hilight, as the list of its cells
    attack_hilight,      \* self.attack_hilight, as the list of its cells
    scene,               \* world.current: "game", "victory", or "error" once
                         \* a handler has raised
    winner,              \* VictoryScene.winner (0 while the match runs)
    last,                \* history: the handler that ran last and its outcome
    actions,             \* history: number of completed moves and attacks
    range_call,          \* a call of _points_in_range and its result
    combat               \* a resolution of one attack: stats, rolls, result

vars == <<MAP_WIDTH, MAP_HEIGHT, chars, players, current_turn, selected,
          selected_character, mode, cursor_pos, movement_hilight,
          attack_hilight, scene, winner, last, actions, range_call, combat>>

game_vars == <<chars, players, current_turn, selected, selected_character,
               mode, cursor_pos, movement_hilight, attack_hilight, scene,
               winner>>

-----------------------------------------------------------------------------
(* Bounds of the model *)

\* side of the (square) grid the match is played on
MapSize == 4
\* number of completed moves and attacks after which the match is cut off
MaxActions == 3
\* largest grid side of the range computation's inputs
MaxSide == 6
\* largest radius of the range computation's inputs
MaxRadius == 3
\* largest strength, defense and health of the combat resolution's inputs
MaxStat == 4

-----------------------------------------------------------------------------
(* Constants of GameScene *)

TEAM_SIZE == 2
TEAM_COUNT == 2

NOTIFY == 0
SELECT_MODE == 1
ACTION_MODE == 2
MOVE_TARGET_MODE == 3
ATTACK_TARGET_MODE == 4

NoCharacter == 0

Min(a, b) == IF a < b THEN a ELSE b
Max(a, b) == IF a > b THEN a ELSE b

\* x in list
In(x, list) == \E i \in 1..Len(list) : list[i] = x

\* the set of a list's elements
Elems(list) == {list[i] : i \in 1..Len(list)}

\* list.index(x)
IndexOf(x, list) == CHOOSE i \in 1..Len(list) :
                        list[i] = x /\ \A j \in 1..(i - 1) : list[j] # x

\* list.remove(x): the list without the first occurrence of x
Remove(x, list) ==
    LET i == IndexOf(x, list)
    IN  [j \in 1..(Len(list) - 1) |-> IF j < i THEN list[j] ELSE list[j + 1]]

-----------------------------------------------------------------------------
(* The characters (characters.py) *)

Characters == 1..(TEAM_SIZE * TEAM_COUNT)

\* _initialize_teams: team t (0-based) holds the characters
\* t * TEAM_SIZE + 1 .. (t + 1) * TEAM_SIZE, in this order
InitialTeam(t) == [i \in 1..TEAM_SIZE |-> t * TEAM_SIZE + i]

\* the team a character was created in
TeamOf(u) == (u - 1) \div TEAM_SIZE

\* cls = Beefy if character_count % 2 == 0 else Ranged
ClassOf(u) == IF ((u - 1) % TEAM_SIZE) % 2 = 0 THEN "Beefy" ELSE "Ranged"

\* the statistics of the two classes
Beefy == [speed |-> 1, range |-> 1, strength |-> 2, defense |-> 3, health |-> 2]
Ranged == [speed |-> 2, range |-> 2, strength |-> 3, defense |-> 2, health |-> 1]

Stats(u) == IF ClassOf(u) = "Beefy" THEN Beefy ELSE Ranged

\* Character.hit(damage): the remaining health, never below 0
hit(health, damage) == Max(0, health - damage)

\* Map.get_starting_positions(TEAM_SIZE): per team, the cells of its characters
StartingPositions ==
    { << << <<0, 0>>, <<1, 1>> >>, << <<2, 1>>, <<2, 2>> >> >>,
      << << <<1, 0>>, <<0, 0>> >>, << <<1, 1>>, <<0, 2>> >> >>,
      << << <<0, 1>>, <<1, 2>> >>, << <<1, 1>>, <<3, 3>> >> >> }

\* self.map.get_row_column(c.x, c.y) of a character
Position(ch, u) == ch[u].pos

\* [self.map.get_row_column(c.x, c.y) for c in team]
Positions(ch, team) == [i \in 1..Len(team) |-> Position(ch, team[i])]


\* Character.move_to(x, y, duration): the character stands on the cell
move_to(ch, u, cell) == [ch EXCEPT ![u].pos = cell]

\* util.find_path: the waypoints from a cell to another, ending at the latter
find_path(from, to) == IF from = to THEN <<>> ELSE <<to>>

-----------------------------------------------------------------------------
(* GameScene: helpers *)

\* _all_characters: reduce(lambda chars, player: player + chars, self.players)
all_characters(pl) == pl[2] \o pl[1]

\* a variant of other_characters with the test inverted
other_characters_inverted(turn) == IF turn # 0 THEN 1 ELSE 0

\* _other_characters: the index (0-based) of the roster it returns
other_characters(turn) == IF turn # 0 THEN 0 ELSE 1

\* a variant of taken that looks at the acting team only
taken_current_team(ch, pl) == Positions(ch, pl[current_turn + 1])

\* taken = [self.map.get_row_column(c.x, c.y) for c in self._all_characters()]
taken(ch, pl) == Positions(ch, all_characters(pl))

RECURSIVE points_in_range(_, _, _)

\* a variant of points_in_range whose vertical span is one cell short
points_in_range_short_span(column, row, length) ==
    IF ~(0 <= column /\ column < MAP_HEIGHT) THEN <<>>
    ELSE IF length = 0 THEN << <<column, row>> >>
    ELSE points_in_range(column - 1, row, length - 1)
         \o [i \in 1..(2 * length) |->
                <<column, Min(Max(0, row - length + (i - 1)), MAP_WIDTH - 1)>>]
         \o points_in_range(column + 1, row, length - 1)

\* a variant of points_in_range that neither clamps nor drops a row
points_in_range_unclamped(column, row, length) ==
    IF ~(0 <= column /\ column < MAP_HEIGHT) THEN <<>>
    ELSE IF length = 0 THEN << <<column, row>> >>
    ELSE points_in_range(column - 1, row, length - 1)
         \o [i \in 1..(2 * length + 1) |-> <<column, row - length + (i - 1)>>]
         \o points_in_range(column + 1, row, length - 1)

\* _points_in_range(column, row, length): the list of cells it returns
points_in_range(column, row, length) ==
    IF ~(0 <= column /\ column < MAP_HEIGHT) THEN <<>>
    ELSE IF length = 0 THEN << <<column, row>> >>
    ELSE points_in_range(column - 1, row, length - 1)
         \o [i \in 1..(2 * length + 1) |->
                <<column, Min(Max(0, row - length + (i - 1)), MAP_WIDTH - 1)>>]
         \o points_in_range(column + 1, row, length - 1)

\* a variant of highlight_next_character_on_current_team that always takes
\* the first character of the team
highlight_first_character_on_current_team(sel, current_team_positions) ==
    current_team_positions[1]

\* a variant of highlight_next_character_on_current_team that stops at the
\* last character of the team instead of wrapping around
highlight_next_character_without_wrap(sel, current_team_positions) ==
    IF In(sel, current_team_positions)
    THEN IF Len(current_team_positions) = 1
         THEN sel
         ELSE LET currently_highlighted == IndexOf(sel, current_team_positions) - 1
              IN  current_team_positions[
                      Min(currently_highlighted + 1,
                          Len(current_team_positions) - 1) + 1]
    ELSE current_team_positions[1]

\* highlight_next_character_on_current_team: the new self.selected
highlight_next_character_on_current_team(sel, current_team_positions) ==
    IF In(sel, current_team_positions)
    THEN IF Len(current_team_positions) = 1
         THEN sel
         ELSE LET currently_highlighted == IndexOf(sel, current_team_positions) - 1
              IN  current_team_positions[
                      ((currently_highlighted + 1) % Len(current_team_positions)) + 1]
    ELSE current_team_positions[1]

\* a variant of change_player that leaves the turn with the acting team
change_player_keeps_turn(turn, sel, pl, ch) ==
    LET old_turn == turn
        new_turn == turn
    IN  IF Len(pl[new_turn + 1]) = 0
        THEN [current_turn |-> new_turn, selected |-> sel,
              scene |-> "victory", winner |-> old_turn + 1]
        ELSE [current_turn |-> new_turn,
              selected |-> highlight_next_character_on_current_team(
                               sel, Positions(ch, pl[new_turn + 1])),
              scene |-> "game", winner |-> 0]

\* a variant of change_player that names the team about to act the winner
change_player_names_loser(turn, sel, pl, ch) ==
    LET new_turn == (turn + 1) % TEAM_COUNT
    IN  IF Len(pl[new_turn + 1]) = 0
        THEN [current_turn |-> new_turn, selected |-> sel,
              scene |-> "victory", winner |-> new_turn + 1]
        ELSE [current_turn |-> new_turn,
              selected |-> highlight_next_character_on_current_team(
                               sel, Positions(ch, pl[new_turn + 1])),
              scene |-> "game", winner |-> 0]

\* a variant of change_player that goes on with the match when the next team
\* has no character left
change_player_plays_on(turn, sel, pl, ch) ==
    LET new_turn == (turn + 1) % TEAM_COUNT
    IN  IF Len(pl[new_turn + 1]) = 0
        THEN [current_turn |-> new_turn, selected |-> sel,
              scene |-> "game", winner |-> 0]
        ELSE [current_turn |-> new_turn,
              selected |-> highlight_next_character_on_current_team(
                               sel, Positions(ch, pl[new_turn + 1])),
              scene |-> "game", winner |-> 0]

\* a variant of change_player that leaves the selection where it is
change_player_keeps_selection(turn, sel, pl, ch) ==
    LET old_turn == turn
        new_turn == (turn + 1) % TEAM_COUNT
    IN  IF Len(pl[new_turn + 1]) = 0
        THEN [current_turn |-> new_turn, selected |-> sel,
              scene |-> "victory", winner |-> old_turn + 1]
        ELSE [current_turn |-> new_turn, selected |-> sel,
              scene |-> "game", winner |-> 0]

\* change_player: the turn, the selection and the scene it leaves
change_player(turn, sel, pl, ch) ==
    LET old_turn == turn
        new_turn == (turn + 1) % TEAM_COUNT
    IN  IF Len(pl[new_turn + 1]) = 0
        THEN [current_turn |-> new_turn, selected |-> sel,
              scene |-> "victory", winner |-> old_turn + 1]
        ELSE [current_turn |-> new_turn,
              selected |-> highlight_next_character_on_current_team(
                               sel, Positions(ch, pl[new_turn + 1])),
              scene |-> "game", winner |-> 0]

\* _schedule_movement: the characters after sprite walked the path to pos
RECURSIVE walk(_, _, _)
walk(ch, u, path) ==
    IF path = <<>> THEN ch ELSE walk(move_to(ch, u, Head(path)), u, Tail(path))

\* a variant of schedule_movement that schedules nothing
schedule_movement_stays(ch, u, pos) == ch

schedule_movement(ch, u, pos) == walk(ch, u, find_path(Position(ch, u), pos))

\* a variant of damage whose least value is 0
damage_from_zero(attack, defense) == Max(0, defense - attack)

\* a variant of damage for a defense roll that may reach the defense itself
damage_of_roll_from_one(attack, defense) == Max(1, defense + 1 - attack)

\* hit = max(1, defense - attack)
damage(attack, defense) == Max(1, defense - attack)

-----------------------------------------------------------------------------
(* GameScene: construction *)

\* the fields that belong to the other specifications
NoRangeCall == [called |-> FALSE]
NoCombat == [resolved |-> FALSE]

\* __init__, for the starting positions sp
GameInit(sp) ==
    LET ch == [u \in Characters |->
                  [pos |-> sp[TeamOf(u) + 1][((u - 1) % TEAM_SIZE) + 1],
                   health |-> Stats(u).health]]
        pl == [t \in 1..TEAM_COUNT |-> InitialTeam(t - 1)]
        first == change_player(1, <<0, 0>>, pl, ch)
    IN  /\ chars = ch
        /\ players = pl
        /\ current_turn = first.current_turn
        /\ selected = first.selected
        /\ selected_character = NoCharacter
        /\ mode = SELECT_MODE
        /\ cursor_pos = 0
        /\ movement_hilight = <<>>
        /\ attack_hilight = <<>>
        /\ scene = first.scene
        /\ winner = first.winner

Init ==
    /\ MAP_WIDTH = MapSize
    /\ MAP_HEIGHT = MapSize
    /\ \E sp \in StartingPositions : GameInit(sp)
    /\ last = [op |-> "init", ok |-> TRUE]
    /\ actions = 0
    /\ range_call = NoRangeCall
    /\ combat = NoCombat

\* the match runs and the model has not cut it off
Running == scene = "game" /\ actions < MaxActions

\* what no handler of the scene changes
Frame == UNCHANGED <<MAP_WIDTH, MAP_HEIGHT, range_call, combat>>

-----------------------------------------------------------------------------
(* GameScene: the handlers *)

\* a variant of move_hilight that clamps to the width and the height
\* themselves, one past the last column and row
move_hilight_past_edge(x, y) ==
    /\ selected' = <<Max(0, Min(x + selected[1], MAP_WIDTH)),
                     Max(0, Min(y + selected[2], MAP_HEIGHT))>>
    /\ UNCHANGED <<chars, players, current_turn, selected_character, mode,
                   cursor_pos, movement_hilight, attack_hilight, scene, winner,
                   actions>>

\* move_hilight(x, y)
move_hilight(x, y) ==
    /\ selected' = <<Max(0, Min(x + selected[1], MAP_WIDTH - 1)),
                     Max(0, Min(y + selected[2], MAP_HEIGHT - 1))>>
    /\ UNCHANGED <<chars, players, current_turn, selected_character, mode,
                   cursor_pos, movement_hilight, attack_hilight, scene, winner,
                   actions>>

\* a variant of close_action_menu that keeps the selected character
close_action_menu_keeps_character ==
    /\ mode' = SELECT_MODE
    /\ UNCHANGED <<chars, players, current_turn, selected, selected_character,
                   cursor_pos, movement_hilight, attack_hilight, scene, winner,
                   actions>>

\* _close_action_menu
close_action_menu ==
    /\ selected_character' = NoCharacter
    /\ mode' = SELECT_MODE
    /\ UNCHANGED <<chars, players, current_turn, selected, cursor_pos,
                   movement_hilight, attack_hilight, scene, winner, actions>>

\* a variant of character_to_open that looks through the characters of both
\* teams
character_to_open_any_team ==
    IF selected_character = NoCharacter
    THEN LET team == all_characters(players)
             here == {i \in 1..Len(team) : Position(chars, team[i]) = selected}
         IN  IF here = {} THEN NoCharacter
             ELSE team[CHOOSE i \in here : \A j \in here : j <= i]
    ELSE selected_character

\* _open_action_menu: the character it ends with
character_to_open ==
    IF selected_character = NoCharacter
    THEN LET team == players[current_turn + 1]
             here == {i \in 1..Len(team) : Position(chars, team[i]) = selected}
         IN  IF here = {} THEN NoCharacter
             ELSE team[CHOOSE i \in here : \A j \in here : j <= i]
    ELSE selected_character

\* a variant of open_action_menu that leaves the highlights as they are
open_action_menu_keeps_hilights ==
    LET character == character_to_open
    IN  /\ selected_character' = character
        /\ IF character # NoCharacter
           THEN /\ cursor_pos' = 0
                /\ mode' = ACTION_MODE
                /\ selected' = Position(chars, character)
           ELSE UNCHANGED <<cursor_pos, mode, selected>>
        /\ UNCHANGED <<chars, players, current_turn, scene, winner, actions,
                       movement_hilight, attack_hilight>>

\* a variant of open_action_menu that leaves the selection where it is
open_action_menu_keeps_selection ==
    LET character == character_to_open
    IN  /\ selected_character' = character
        /\ IF character # NoCharacter
           THEN /\ cursor_pos' = 0
                /\ mode' = ACTION_MODE
                /\ movement_hilight' = <<>>
                /\ attack_hilight' = <<>>
           ELSE UNCHANGED <<cursor_pos, mode, movement_hilight, attack_hilight>>
        /\ UNCHANGED <<chars, players, current_turn, scene, winner, actions,
                       selected>>

\* _open_action_menu
open_action_menu ==
    LET character == character_to_open
    IN  /\ selected_character' = character
        /\ IF character # NoCharacter
           THEN /\ movement_hilight' = <<>>
                /\ attack_hilight' = <<>>
                /\ cursor_pos' = 0
                /\ mode' = ACTION_MODE
                /\ selected' = Position(chars, character)
           ELSE UNCHANGED <<movement_hilight, attack_hilight, cursor_pos, mode,
                            selected>>
        /\ UNCHANGED <<chars, players, current_turn, scene, winner, actions>>

\* _move_cursor(direction)
move_cursor(direction) ==
    /\ cursor_pos' = (cursor_pos - direction) % 3
    /\ UNCHANGED <<chars, players, current_turn, selected, selected_character,
                   mode, movement_hilight, attack_hilight, scene, winner,
                   actions>>

\* a variant of initiate_movement that highlights the occupied cells too
initiate_movement_unfiltered ==
    LET character == selected_character
        cell == Position(chars, character)
        in_range == points_in_range(cell[1], cell[2], Stats(character).speed)
    IN  /\ mode' = MOVE_TARGET_MODE
        /\ movement_hilight' = in_range
        /\ UNCHANGED <<chars, players, current_turn, selected,
                       selected_character, cursor_pos, attack_hilight, scene,
                       winner, actions>>

\* _initiate_movement
initiate_movement ==
    LET character == selected_character
        occupied == taken(chars, players)
        cell == Position(chars, character)
        in_range == points_in_range(cell[1], cell[2], Stats(character).speed)
    IN  /\ mode' = MOVE_TARGET_MODE
        /\ movement_hilight' = SelectSeq(in_range, LAMBDA c : ~In(c, occupied))
        /\ UNCHANGED <<chars, players, current_turn, selected,
                       selected_character, cursor_pos, attack_hilight, scene,
                       winner, actions>>

\* _initiate_attack; in_range.remove(self.selected) raises when the cell is
\* not in the list
initiate_attack ==
    LET character == selected_character
        cell == Position(chars, character)
        in_range == points_in_range(cell[1], cell[2], Stats(character).range)
    IN  /\ mode' = ATTACK_TARGET_MODE
        /\ IF In(selected, in_range)
           THEN attack_hilight' = Remove(selected, in_range) /\ scene' = scene
           ELSE attack_hilight' = <<>> /\ scene' = "error"
        /\ UNCHANGED <<chars, players, current_turn, selected,
                       selected_character, cursor_pos, movement_hilight,
                       winner, actions>>

\* a variant of menu_action with the list of actions in the order written
menu_action_unreversed ==
    CASE cursor_pos = 0 -> initiate_movement
      [] cursor_pos = 1 -> initiate_attack
      [] cursor_pos = 2 -> close_action_menu

\* _menu_action: actions = [Cancel, Attack, Move]; actions[self.cursor_pos]()
menu_action ==
    CASE cursor_pos = 0 -> close_action_menu
      [] cursor_pos = 1 -> initiate_attack
      [] cursor_pos = 2 -> initiate_movement

\* a variant of move_accepted without the test of the highlighted cells
move_accepted_unhighlighted == ~In(selected, taken(chars, players))

\* _execute_move: whether the move is carried out
move_accepted ==
    /\ ~In(selected, taken(chars, players))
    /\ In(selected, movement_hilight)

\* _execute_move
execute_move ==
    IF move_accepted
    THEN LET moved == schedule_movement(chars, selected_character, selected)
             next == change_player(current_turn, selected, players, moved)
         IN  /\ chars' = moved
             /\ movement_hilight' = <<>>
             /\ current_turn' = next.current_turn
             /\ selected' = next.selected
             /\ scene' = next.scene
             /\ winner' = next.winner
             /\ selected_character' = NoCharacter
             /\ mode' = SELECT_MODE
             /\ actions' = actions + 1
             /\ UNCHANGED <<players, cursor_pos, attack_hilight>>
    ELSE UNCHANGED <<game_vars, actions>>

\* a variant of attacked_character without the test of the highlighted cells
attacked_character_unhighlighted ==
    LET team == players[other_characters(current_turn) + 1]
        here == {i \in 1..Len(team) : Position(chars, team[i]) = selected}
    IN  IF here = {} THEN NoCharacter
        ELSE team[CHOOSE i \in here : \A j \in here : j <= i]

\* _execute_attack: the character attacked, if any
attacked_character ==
    IF In(selected, attack_hilight)
    THEN LET team == players[other_characters(current_turn) + 1]
             here == {i \in 1..Len(team) : Position(chars, team[i]) = selected}
         IN  IF here = {} THEN NoCharacter
             ELSE team[CHOOSE i \in here : \A j \in here : j <= i]
    ELSE NoCharacter

\* a variant of rosters_after that removes below 0 only
rosters_after_below_zero(attacked, remaining_health) ==
    LET other == other_characters(current_turn) + 1
    IN  IF remaining_health < 0
        THEN [players EXCEPT ![other] = Remove(attacked, players[other])]
        ELSE players

\* if remaining_health == 0: self._other_characters().remove(attacked)
rosters_after(attacked, remaining_health) ==
    LET other == other_characters(current_turn) + 1
    IN  IF remaining_health = 0
        THEN [players EXCEPT ![other] = Remove(attacked, players[other])]
        ELSE players

\* a variant of resolve_attack in which the attacker is hurt as well
resolve_attack_with_recoil(attacker, attacked, attack, defense) ==
    LET dealt == damage(attack, defense)
        remaining_health == hit(chars[attacked].health, dealt)
        hurt == [chars EXCEPT ![attacked].health = remaining_health,
                              ![attacker].health = Max(1, @ - 1)]
        rosters == rosters_after(attacked, remaining_health)
        next == change_player(current_turn, selected, rosters, hurt)
    IN  /\ chars' = hurt
        /\ players' = rosters
        /\ attack_hilight' = <<>>
        /\ current_turn' = next.current_turn
        /\ selected' = next.selected
        /\ scene' = next.scene
        /\ winner' = next.winner
        /\ selected_character' = NoCharacter
        /\ mode' = SELECT_MODE
        /\ actions' = actions + 1
        /\ UNCHANGED <<cursor_pos, movement_hilight>>

\* _execute_attack, the part under "if attacked", for the two rolls
resolve_attack(attacker, attacked, attack, defense) ==
    LET dealt == damage(attack, defense)
        remaining_health == hit(chars[attacked].health, dealt)
        hurt == [chars EXCEPT ![attacked].health = remaining_health]
        rosters == rosters_after(attacked, remaining_health)
        next == change_player(current_turn, selected, rosters, hurt)
    IN  /\ chars' = hurt
        /\ players' = rosters
        /\ attack_hilight' = <<>>
        /\ current_turn' = next.current_turn
        /\ selected' = next.selected
        /\ scene' = next.scene
        /\ winner' = next.winner
        /\ selected_character' = NoCharacter
        /\ mode' = SELECT_MODE
        /\ actions' = actions + 1
        /\ UNCHANGED <<cursor_pos, movement_hilight>>

\* _execute_attack
execute_attack ==
    LET attacker == selected_character
        attacked == attacked_character
    IN  IF attacked # NoCharacter
        THEN \E attack \in 0..(Stats(attacker).strength - 1),
                defense \in 0..(Stats(attacked).defense - 1) :
                 resolve_attack(attacker, attacked, attack, defense)
        ELSE UNCHANGED <<game_vars, actions>>

-----------------------------------------------------------------------------
(* on_key_press: the key handlers of each mode *)

TargetModes == {MOVE_TARGET_MODE, ATTACK_TARGET_MODE}

\* LEFT, RIGHT, UP, DOWN in SELECT_MODE and in the two target modes
KeyArrow ==
    /\ Running
    /\ mode \in {SELECT_MODE} \cup TargetModes
    /\ \E d \in {<<-1, 0>>, <<1, 0>>, <<0, -1>>, <<0, 1>>} : move_hilight(d[1], d[2])
    /\ last' = [op |-> "move_hilight", ok |-> TRUE]
    /\ Frame

\* TAB in SELECT_MODE
KeyTab ==
    /\ Running
    /\ mode = SELECT_MODE
    /\ selected' = highlight_next_character_on_current_team(
                       selected, Positions(chars, players[current_turn + 1]))
    /\ UNCHANGED <<chars, players, current_turn, selected_character, mode,
                   cursor_pos, movement_hilight, attack_hilight, scene, winner,
                   actions>>
    /\ last' = [op |-> "highlight_next", ok |-> TRUE]
    /\ Frame

\* ENTER in SELECT_MODE
KeyEnterSelect ==
    /\ Running
    /\ mode = SELECT_MODE
    /\ open_action_menu
    /\ last' = [op |-> "open_action_menu", ok |-> mode' = ACTION_MODE]
    /\ Frame

\* ESCAPE in the two target modes
KeyEscapeTarget ==
    /\ Running
    /\ mode \in TargetModes
    /\ open_action_menu
    /\ last' = [op |-> "cancel_target", ok |-> mode' = ACTION_MODE]
    /\ Frame

\* ESCAPE in ACTION_MODE
KeyEscapeAction ==
    /\ Running
    /\ mode = ACTION_MODE
    /\ close_action_menu
    /\ last' = [op |-> "close_action_menu", ok |-> TRUE]
    /\ Frame

\* UP, DOWN in ACTION_MODE
KeyArrowAction ==
    /\ Running
    /\ mode = ACTION_MODE
    /\ \E direction \in {1, -1} : move_cursor(direction)
    /\ last' = [op |-> "move_cursor", ok |-> TRUE]
    /\ Frame

\* ENTER in ACTION_MODE
KeyEnterAction ==
    /\ Running
    /\ mode = ACTION_MODE
    /\ menu_action
    /\ last' = [op |-> "menu_action", ok |-> TRUE]
    /\ Frame

\* ENTER in MOVE_TARGET_MODE
KeyEnterMove ==
    /\ Running
    /\ mode = MOVE_TARGET_MODE
    /\ execute_move
    /\ last' = [op |-> "execute_move", ok |-> actions' # actions]
    /\ Frame

\* ENTER in ATTACK_TARGET_MODE
KeyEnterAttack ==
    /\ Running
    /\ mode = ATTACK_TARGET_MODE
    /\ execute_attack
    /\ last' = [op |-> "execute_attack", ok |-> actions' # actions]
    /\ Frame

Next ==
    \/ KeyArrow
    \/ KeyTab
    \/ KeyEnterSelect
    \/ KeyEscapeTarget
    \/ KeyEscapeAction
    \/ KeyArrowAction
    \/ KeyEnterAction
    \/ KeyEnterMove
    \/ KeyEnterAttack

Spec == Init /\ [][Next]_vars

-----------------------------------------------------------------------------
(* The range computation on its own: _points_in_range called with an        *)
(* in-bounds origin and a radius, on grids of every size up to MaxSide      *)

\* the fields of the scene, unused while only the computation is exercised
NoGame ==
    /\ chars = <<>>
    /\ players = <<>>
    /\ current_turn = 0
    /\ selected = <<0, 0>>
    /\ selected_character = NoCharacter
    /\ mode = NOTIFY
    /\ cursor_pos = 0
    /\ movement_hilight = <<>>
    /\ attack_hilight = <<>>
    /\ scene = "none"
    /\ winner = 0
    /\ last = [op |-> "init", ok |-> TRUE]
    /\ actions = 0

InitRange ==
    /\ MAP_WIDTH \in 1..MaxSide
    /\ MAP_HEIGHT \in 1..MaxSide
    /\ NoGame
    /\ range_call = NoRangeCall
    /\ combat = NoCombat

CallPointsInRange ==
    /\ \E column \in 0..(MAP_WIDTH - 1), row \in 0..(MAP_HEIGHT - 1),
          length \in 0..MaxRadius :
           range_call' = [called |-> TRUE, column |-> column, row |-> row,
                          length |-> length,
                          result |-> points_in_range(column, row, length)]
    /\ UNCHANGED <<MAP_WIDTH, MAP_HEIGHT, game_vars, last, actions, combat>>

NextRange == CallPointsInRange

SpecRange == InitRange /\ [][NextRange]_vars

-----------------------------------------------------------------------------
(* The combat resolution on its own: the part of _execute_attack that rolls *)
(* and applies the damage, for every strength, defense and health up to     *)
(* MaxStat, attack after attack on the same defender                        *)

InitCombat ==
    /\ MAP_WIDTH = MapSize
    /\ MAP_HEIGHT = MapSize
    /\ NoGame
    /\ range_call = NoRangeCall
    /\ \E strength \in 1..MaxStat, defense \in 1..MaxStat, health \in 1..MaxStat :
           combat = [resolved |-> FALSE, strength |-> strength,
                     defense |-> defense, before |-> health, attack |-> 0,
                     roll |-> 0, dealt |-> 0, health |-> health]

\* attack = random.randrange(attacker.strength)
\* defense = random.randrange(attacked.defense)
\* hit = max(1, defense - attack); remaining_health = attacked.hit(hit)
ResolveCombat ==
    /\ combat.health > 0
    /\ \E attack \in 0..(combat.strength - 1), roll \in 0..(combat.defense - 1) :
           combat' = [combat EXCEPT
                         !.resolved = TRUE,
                         !.before = combat.health,
                         !.attack = attack,
                         !.roll = roll,
                         !.dealt = damage(attack, roll),
                         !.health = hit(combat.health, damage(attack, roll))]
    /\ UNCHANGED <<MAP_WIDTH, MAP_HEIGHT, game_vars, last, actions, range_call>>

NextCombat == ResolveCombat

SpecCombat == InitCombat /\ [][NextCombat]_vars

-----------------------------------------------------------------------------
(* Properties *)

\* the living characters standing on a cell
LivingAt(cell) ==
    {u \in Characters : chars[u].health > 0 /\ chars[u].pos = cell}

\* the ENTER key was handled in MOVE_TARGET_MODE / ATTACK_TARGET_MODE
ConfirmedMove == mode = MOVE_TARGET_MODE /\ last'.op = "execute_move"
ConfirmedAttack == mode = ATTACK_TARGET_MODE /\ last'.op = "execute_attack"

TurnAdvanced == current_turn' = (current_turn + 1) % TEAM_COUNT

\* C1: no two living characters, of either team, stand on the same cell,
\* whatever keys were pressed since the start of the match.
NoSharedCell ==
    \A u, v \in Characters :
        (u # v /\ chars[u].health > 0 /\ chars[v].health > 0)
            => chars[u].pos # chars[v].pos

\* a second move has just been carried out
C1Witness ==
    last = [op |-> "execute_move", ok |-> TRUE] /\ actions >= 2

\* C2: ENTER in MOVE_TARGET_MODE on the selected cell moves the selected
\* character there and advances the turn if and only if the cell is among the
\* movement highlights and no living character stands on it; in every other
\* case the state of the scene is left as it was.
MoveLegality ==
    [][ConfirmedMove =>
          LET legal == In(selected, movement_hilight) /\ LivingAt(selected) = {}
          IN  /\ legal => /\ chars'[selected_character].pos = selected
                          /\ TurnAdvanced
              /\ ~legal => UNCHANGED game_vars]_vars

\* a move onto a cell within reach was refused because a character stands there
C2Witness ==
    /\ last = [op |-> "execute_move", ok |-> FALSE]
    /\ mode = MOVE_TARGET_MODE
    /\ LivingAt(selected) # {}
    /\ selected # chars[selected_character].pos
    /\ LET cell == chars[selected_character].pos
       IN  In(selected, points_in_range(cell[1], cell[2],
                                        Stats(selected_character).speed))

\* C3: ENTER in ATTACK_TARGET_MODE on the selected cell deals damage and
\* advances the turn if and only if the cell is among the attack highlights and
\* a living character of the opposing team stands on it; otherwise nothing
\* changes.
AttackLegality ==
    [][ConfirmedAttack =>
          LET opposing == {u \in LivingAt(selected) : TeamOf(u) # current_turn}
              legal == In(selected, attack_hilight) /\ opposing # {}
          IN  /\ legal => /\ \E u \in opposing :
                                 chars'[u].health < chars[u].health
                          /\ TurnAdvanced
              /\ ~legal => UNCHANGED game_vars]_vars

\* an attack on a highlighted cell was refused because the character standing
\* there belongs to the acting team
C3Witness ==
    /\ last = [op |-> "execute_attack", ok |-> FALSE]
    /\ mode = ATTACK_TARGET_MODE
    /\ In(selected, attack_hilight)
    /\ \E u \in LivingAt(selected) :
           TeamOf(u) = current_turn /\ u # selected_character

\* C4: current_turn changes only in a step that completes a move or an attack,
\* and then to (current_turn + 1) mod 2; every completed move or attack changes
\* it, so that the teams alternate with one completed action per turn.
TurnChangesOnlyOnAction ==
    [][/\ current_turn' # current_turn =>
             /\ last'.op \in {"execute_move", "execute_attack"}
             /\ last'.ok
             /\ mode \in TargetModes
             /\ TurnAdvanced
       /\ actions' # actions => current_turn' # current_turn
       /\ (chars' # chars \/ players' # players) => actions' = actions + 1
       /\ current_turn' = actions' % TEAM_COUNT]_vars

\* two actions were completed and the turn is back with the first team
C4Witness ==
    actions = 2 /\ current_turn = 0 /\ last.ok
        /\ last.op \in {"execute_move", "execute_attack"}

\* C5: the match is declared ended exactly when the team about to act has no
\* living character: by the attack that removed its last one, in the same step,
\* with the team that made this attack as the winner.
VictoryOnElimination ==
    /\ scene = "victory" =>
          /\ players[current_turn + 1] = <<>>
          /\ last = [op |-> "execute_attack", ok |-> TRUE]
          /\ winner = ((current_turn + 1) % TEAM_COUNT) + 1
          /\ players[winner] # <<>>
    /\ (\E t \in 1..TEAM_COUNT : players[t] = <<>>) => scene = "victory"
    /\ scene = "game" => players[current_turn + 1] # <<>> /\ winner = 0

\* the first team has removed the last character of the second
C5Witness ==
    scene = "victory" /\ winner = 1 /\ players[2] = <<>>

\* the cells within Manhattan distance r of a cell, on the grid
AbsDiff(a, b) == IF a < b THEN b - a ELSE a - b
Diamond(column, row, r) ==
    {c \in (0..(MAP_WIDTH - 1)) \X (0..(MAP_HEIGHT - 1)) :
        AbsDiff(c[1], column) + AbsDiff(c[2], row) <= r}

\* C6: on a square grid, for an in-bounds origin and a radius r >= 0, the cells
\* _points_in_range returns are exactly the cells of the grid within Manhattan
\* distance r of the origin; for r = 0 that is the origin alone.
RangeIsDiamond ==
    (range_call.called /\ MAP_WIDTH = MAP_HEIGHT) =>
        /\ Elems(range_call.result)
               = Diamond(range_call.column, range_call.row, range_call.length)
        /\ range_call.length = 0 =>
               Elems(range_call.result)
                   = {<<range_call.column, range_call.row>>}

\* a diamond of radius 2 around a corner of a square grid, cut by two edges
C6Witness ==
    /\ range_call.called
    /\ MAP_WIDTH = MAP_HEIGHT /\ MAP_WIDTH >= 4
    /\ range_call.length = 2
    /\ range_call.column = 0 /\ range_call.row = MAP_HEIGHT - 1
    /\ Cardinality(Elems(range_call.result)) = 6

\* C7: in ATTACK_TARGET_MODE the attack highlights do not contain the cell of
\* the attacking character.
AttackHilightExcludesOrigin ==
    (mode = ATTACK_TARGET_MODE /\ selected_character # NoCharacter) =>
        ~In(chars[selected_character].pos, attack_hilight)

\* a move or an attack has just been completed and the match goes on
ActionCompleted ==
    /\ last.op \in {"execute_move", "execute_attack"}
    /\ last.ok
    /\ scene = "game"

\* C8 as claimed: after every completed move or attack that does not end the
\* match, the mode is SELECT_MODE and the selected cell is the cell of the
\* first character in the roster of the team now to act.
SelectionOnFirstCharacter ==
    ActionCompleted =>
        /\ mode = SELECT_MODE
        /\ selected = chars[players[current_turn + 1][1]].pos

\* C8 as amended: after every completed move or attack that does not end the
\* match, the mode is SELECT_MODE and the selected cell is the cell of a
\* character of the team now to act: the first of its roster, except after an
\* attack whose target survived in a roster of two or more, where it is the
\* character that follows the target in the roster, wrapping around.
SelectionAfterAction ==
    [][(actions' = actions + 1 /\ scene' = "game") =>
          LET team == players'[current_turn' + 1]
              target == {i \in 1..Len(team) : chars'[team[i]].pos = selected}
          IN  /\ mode' = SELECT_MODE
              /\ TurnAdvanced
              /\ \A i \in target :
                     Len(team) > 1 =>
                         selected' = chars'[team[(i % Len(team)) + 1]].pos
              /\ (target = {} \/ Len(team) = 1) =>
                     selected' = chars'[team[1]].pos]_vars

\* the first character of a roster of two has just survived an attack, and the
\* selection is on the second
C8Witness ==
    /\ ActionCompleted
    /\ last.op = "execute_attack"
    /\ Len(players[current_turn + 1]) = 2
    /\ LET first == players[current_turn + 1][1]
           second == players[current_turn + 1][2]
       IN  /\ chars[first].health < Stats(first).health
           /\ chars[second].health = Stats(second).health
           /\ selected = chars[second].pos
           /\ actions = 1

\* C9: for every strength and defense of 1 or more and every pair of rolls
\* below them, the damage of a resolved attack is max(1, defense roll - attack
\* roll), so at least 1, and the defender's health afterwards is
\* max(0, health before - damage); the health is never negative.
DamageAndHealth ==
    /\ combat.health >= 0
    /\ combat.resolved =>
          /\ combat.attack \in 0..(combat.strength - 1)
          /\ combat.roll \in 0..(combat.defense - 1)
          /\ combat.dealt = (IF combat.roll - combat.attack >= 1
                             THEN combat.roll - combat.attack ELSE 1)
          /\ combat.dealt >= 1
          /\ combat.health = (IF combat.before - combat.dealt >= 0
                              THEN combat.before - combat.dealt ELSE 0)
          /\ combat.health < combat.before

\* an attack whose damage, larger than 1, exceeds the health that was left
C9Witness ==
    /\ combat.resolved
    /\ combat.dealt >= 2
    /\ combat.dealt > combat.before
    /\ combat.health = 0

\* u is in a roster
InRoster(u) == \E t \in 1..TEAM_COUNT : In(u, players[t])

\* the rosters hold the characters with health left, each once, in its team
RostersAlive ==
    /\ \A u \in Characters : InRoster(u) <=> chars[u].health > 0
    /\ \A t \in 1..TEAM_COUNT :
           /\ \A i \in 1..Len(players[t]) : TeamOf(players[t][i]) = t - 1
           /\ \A i, j \in 1..Len(players[t]) :
                  i # j => players[t][i] # players[t][j]

\* C10: the rosters hold only characters with health above 0: the character
\* whose health reaches 0 leaves its roster in the step of the attack, once,
\* and no character outside the rosters ever enters one again.  (The rosters
\* and the characters are looked at when the match starts and in every step
\* that changes either.)
DeadLeaveRoster ==
    [][/\ last.op = "init" => RostersAlive
       /\ (chars' # chars \/ players' # players) =>
             /\ RostersAlive'
             /\ \A u \in Characters :
                    /\ ~InRoster(u) => ~InRoster(u)'
                    /\ (InRoster(u) /\ ~InRoster(u)') =>
                           /\ chars[u].health > 0
                           /\ chars'[u].health = 0
                           /\ last'.op = "execute_attack"
                           /\ Len(players'[TeamOf(u) + 1])
                                  = Len(players[TeamOf(u) + 1]) - 1]_vars

\* the match goes on after a character was removed, and keys were pressed since
C10Witness ==
    /\ scene = "game"
    /\ last.op = "move_hilight"
    /\ \E u \in Characters : chars[u].health = 0 /\ ~InRoster(u)

-----------------------------------------------------------------------------
(* Properties of the selection, the modes and the highlights *)

Directions == {<<-1, 0>>, <<1, 0>>, <<0, -1>>, <<0, 1>>}

InGrid(cell) ==
    /\ 0 <= cell[1] /\ cell[1] < MAP_WIDTH
    /\ 0 <= cell[2] /\ cell[2] < MAP_HEIGHT

\* the living characters of the acting team / of the other team on a cell
OwnAt(cell) == {u \in LivingAt(cell) : TeamOf(u) = current_turn}
EnemyAt(cell) == {u \in LivingAt(cell) : TeamOf(u) # current_turn}

\* C11: an illegal key press changes nothing of the battle and raises no
\* error: ENTER in SELECT_MODE on a cell without a living character of the
\* acting team, ENTER in a target mode on a cell outside the highlights, and an
\* arrow key that would take the selection off the grid.
IllegalIsNoOp ==
    [][/\ (mode = SELECT_MODE /\ last'.op = "open_action_menu"
              /\ OwnAt(selected) = {}) => UNCHANGED game_vars
       /\ (ConfirmedMove /\ ~In(selected, movement_hilight))
              => UNCHANGED game_vars
       /\ (ConfirmedAttack /\ ~In(selected, attack_hilight))
              => UNCHANGED game_vars
       /\ \A d \in Directions :
              (/\ mode \in {SELECT_MODE} \cup TargetModes
               /\ ~InGrid(<<selected[1] + d[1], selected[2] + d[2]>>)
               /\ move_hilight(d[1], d[2])) => UNCHANGED game_vars
       /\ scene' # "error"]_vars

\* an attack on a character of the other team was refused because its cell
\* is outside the highlights
C11Witness ==
    /\ last = [op |-> "execute_attack", ok |-> FALSE]
    /\ mode = ATTACK_TARGET_MODE
    /\ ~In(selected, attack_hilight)
    /\ EnemyAt(selected) # {}

\* C12: the selected cell is a cell of the grid in every state, and an arrow
\* key in SELECT_MODE and in the target modes sets it to the cell one step in
\* the key's direction, each coordinate clamped to the grid.
SelectionInGrid ==
    [][/\ last.op = "init" => InGrid(selected)
       /\ InGrid(selected')
       /\ last'.op = "move_hilight" =>
             /\ mode \in {SELECT_MODE} \cup TargetModes
             /\ \E d \in Directions :
                    LET column == selected[1] + d[1]
                        row == selected[2] + d[2]
                    IN  selected' =
                          <<IF column < 0 THEN 0
                            ELSE IF column > MAP_WIDTH - 1 THEN MAP_WIDTH - 1
                            ELSE column,
                            IF row < 0 THEN 0
                            ELSE IF row > MAP_HEIGHT - 1 THEN MAP_HEIGHT - 1
                            ELSE row>>]_vars

\* the arrow keys took the selection to the far corner, where nobody stands
C12Witness ==
    /\ last.op = "move_hilight"
    /\ selected = <<MAP_WIDTH - 1, MAP_HEIGHT - 1>>
    /\ \A u \in Characters : chars[u].pos # selected
    /\ mode = MOVE_TARGET_MODE

\* the selection after k presses of TAB, starting from the cell sel
RECURSIVE Cycled(_, _)
Cycled(sel, k) ==
    IF k = 0 THEN sel
    ELSE Cycled(highlight_next_character_on_current_team(
                    sel, Positions(chars, players[current_turn + 1])), k - 1)

\* C13: TAB in SELECT_MODE takes the selection from the cell of the i-th
\* character of the acting team's roster of n to the cell of character
\* (i + 1) mod n, and from any other cell to the cell of the roster's first
\* character; n presses from a character of the team lead back to it; the
\* cell selected is never empty nor a cell of the other team.
CycleSelection ==
    [][last'.op = "highlight_next" =>
          LET team == players[current_turn + 1]
              n == Len(team)
              on == {i \in 1..n : chars[team[i]].pos = selected}
          IN  /\ mode = SELECT_MODE
              /\ \A i \in on : selected' = chars[team[(i % n) + 1]].pos
              /\ on = {} => selected' = chars[team[1]].pos
              /\ on # {} => Cycled(selected, n) = selected
              /\ OwnAt(selected') # {} /\ EnemyAt(selected') = {}
              /\ UNCHANGED <<chars, players, current_turn, selected_character,
                             mode, movement_hilight, attack_hilight, scene,
                             winner>>]_vars

\* TAB has just put the selection on the first character of the second
\* team's roster of two
C13Witness ==
    /\ last.op = "highlight_next"
    /\ current_turn = 1
    /\ Len(players[2]) = 2
    /\ selected = chars[players[2][1]].pos

\* C14: a character is selected exactly in ACTION_MODE and in the two target
\* modes, none in SELECT_MODE; the selected character is a living character in
\* the roster of the team whose turn it is.
SelectedCharacterWhileActing ==
    /\ selected_character # NoCharacter
           <=> mode \in {ACTION_MODE} \cup TargetModes
    /\ selected_character # NoCharacter =>
           /\ In(selected_character, players[current_turn + 1])
           /\ chars[selected_character].health > 0

\* a character of the second team is selected, about to attack
C14Witness ==
    /\ mode = ATTACK_TARGET_MODE
    /\ current_turn = 1
    /\ selected_character \in {3, 4}

\* C15: on every grid, square or not, every cell _points_in_range returns for
\* an in-bounds origin lies on the grid, and every column of the grid within
\* the radius of the origin's column has a cell in the result.
RangeClippedToGrid ==
    range_call.called =>
        /\ \A c \in Elems(range_call.result) : InGrid(c)
        /\ \A column \in 0..(MAP_WIDTH - 1) :
               AbsDiff(column, range_call.column) <= range_call.length =>
                   \E c \in Elems(range_call.result) : c[1] = column

\* C16: in SELECT_MODE and ACTION_MODE both lists of highlights are empty; in
\* MOVE_TARGET_MODE the attack highlights are empty, in ATTACK_TARGET_MODE the
\* movement highlights.
HilightsOfTheModeOnly ==
    /\ mode \in {SELECT_MODE, ACTION_MODE} =>
           movement_hilight = <<>> /\ attack_hilight = <<>>
    /\ mode = MOVE_TARGET_MODE => attack_hilight = <<>>
    /\ mode = ATTACK_TARGET_MODE => movement_hilight = <<>>

\* back in the menu after a look at the cells to move to, in a later turn
C16Witness ==
    /\ last = [op |-> "cancel_target", ok |-> TRUE]
    /\ mode = ACTION_MODE
    /\ actions >= 1
    /\ LET cell == chars[selected_character].pos
       IN  \E c \in Diamond(cell[1], cell[2], Stats(selected_character).speed) :
               LivingAt(c) = {}

\* C17: ENTER in SELECT_MODE leads to ACTION_MODE if and only if a living
\* character of the acting team stands on the selected cell; that character,
\* and never one of the other team, becomes the selected character, and both
\* lists of highlights are emptied.
ConfirmSelects ==
    [][(mode = SELECT_MODE /\ last'.op = "open_action_menu") =>
          /\ mode' = ACTION_MODE <=> OwnAt(selected) # {}
          /\ mode' # ACTION_MODE => mode' = SELECT_MODE
          /\ OwnAt(selected) # {} =>
                /\ selected_character' \in OwnAt(selected)
                /\ movement_hilight' = <<>>
                /\ attack_hilight' = <<>>
          /\ OwnAt(selected) = {} => selected_character' = NoCharacter]_vars

\* the second team's player has selected one of its characters
C17Witness ==
    /\ last = [op |-> "open_action_menu", ok |-> TRUE]
    /\ mode = ACTION_MODE
    /\ current_turn = 1
    /\ TeamOf(selected_character) = 1

\* the cells a living character of either team stands on
OccupiedCells == {chars[u].pos : u \in {v \in Characters : chars[v].health > 0}}

\* the cells within the speed of the selected character, less the occupied ones
FreeCellsInReach ==
    LET cell == chars[selected_character].pos
    IN  Diamond(cell[1], cell[2], Stats(selected_character).speed)
            \ OccupiedCells

\* C18: choosing Move in the action menu enters MOVE_TARGET_MODE with the
\* movement highlights being the cells within the selected character's speed
\* of its cell, less every cell a living character of either team stands on
\* (its own too); as long as the mode is MOVE_TARGET_MODE no highlighted cell
\* is occupied; a character of speed 2 at (0,0) has (2,0) and (0,2) highlighted
\* when they are free.
MoveHilightsFreeCellsInReach ==
    [][/\ (mode = ACTION_MODE /\ last'.op = "menu_action" /\ cursor_pos = 2) =>
              /\ mode' = MOVE_TARGET_MODE
              /\ selected_character' = selected_character
              /\ Elems(movement_hilight') = FreeCellsInReach'
       /\ mode' = MOVE_TARGET_MODE =>
              /\ Elems(movement_hilight') \cap OccupiedCells' = {}
              /\ (/\ chars'[selected_character'].pos = <<0, 0>>
                  /\ Stats(selected_character').speed = 2) =>
                     \A c \in {<<2, 0>>, <<0, 2>>} \ OccupiedCells' :
                         In(c, movement_hilight')]_vars

\* Move was chosen for a character of speed 2 at (0,0) with a neighbour in its
\* reach, (2,0) and (0,2) being free
C18Witness ==
    /\ last.op = "menu_action"
    /\ mode = MOVE_TARGET_MODE
    /\ chars[selected_character].pos = <<0, 0>>
    /\ Stats(selected_character).speed = 2
    /\ In(<<2, 0>>, movement_hilight)
    /\ In(<<0, 2>>, movement_hilight)
    /\ \E u \in Characters \ {selected_character} :
           /\ chars[u].health > 0
           /\ chars[u].pos \in Diamond(0, 0, 2)
           /\ ~In(chars[u].pos, movement_hilight)

\* the units and the turn are as they were
NothingActed ==
    /\ chars' = chars
    /\ players' = players
    /\ current_turn' = current_turn
    /\ scene' = scene
    /\ winner' = winner

\* C19: ESCAPE, or the choice of Cancel, in ACTION_MODE clears the selected
\* character and returns to SELECT_MODE; ESCAPE in either target mode returns
\* to ACTION_MODE with the same selected character and both lists of
\* highlights emptied; in all three cases the turn, the positions and health
\* of the characters and the rosters stay as they were.
CancelNeverActs ==
    [][/\ (mode = ACTION_MODE
               /\ \/ last'.op = "close_action_menu"
                  \/ last'.op = "menu_action" /\ cursor_pos = 0) =>
              /\ selected_character' = NoCharacter
              /\ mode' = SELECT_MODE
              /\ NothingActed
       /\ (mode \in TargetModes /\ last'.op = "cancel_target") =>
              /\ mode' = ACTION_MODE
              /\ selected_character' = selected_character
              /\ movement_hilight' = <<>>
              /\ attack_hilight' = <<>>
              /\ NothingActed]_vars

\* Cancel was chosen in the action menu, in a turn after the first
C19Witness ==
    /\ last.op = "menu_action"
    /\ mode = SELECT_MODE
    /\ selected_character = NoCharacter
    /\ actions >= 1
    /\ cursor_pos = 0

\* C20: a move that is carried out puts the selected character on the selected
\* cell and changes no other character's position, no character's health and
\* no roster; after it there are no movement highlights and no selected
\* character.
MoveChangesOnePosition ==
    [][(ConfirmedMove /\ actions' # actions) =>
          /\ chars' = [chars EXCEPT ![selected_character].pos = selected]
          /\ chars' # chars
          /\ players' = players
          /\ movement_hilight' = <<>>
          /\ selected_character' = NoCharacter]_vars

\* the second team has just moved one of its characters
C20Witness ==
    /\ last = [op |-> "execute_move", ok |-> TRUE]
    /\ current_turn = 0
    /\ actions >= 2
    /\ mode = SELECT_MODE
    /\ \E u \in {3, 4} : \A sp \in StartingPositions :
           chars[u].pos # sp[2][((u - 1) % TEAM_SIZE) + 1]

-----------------------------------------------------------------------------
(* Properties of the attack, the range, the end of the match and its start *)

\* C21: an attack that is carried out lowers the health of one character, the
\* living character of the other team on the selected cell, and of no other;
\* no character of the acting team loses health, no position changes and the
\* acting team's roster stays as it was; after it there are no attack
\* highlights and no selected character.
AttackHurtsOneEnemy ==
    [][(ConfirmedAttack /\ actions' # actions) =>
          /\ \E target \in EnemyAt(selected) :
                /\ chars'[target].health < chars[target].health
                /\ \A u \in Characters \ {target} : chars'[u] = chars[u]
          /\ \A u \in Characters :
                /\ chars'[u].pos = chars[u].pos
                /\ TeamOf(u) = current_turn =>
                       chars'[u].health = chars[u].health
          /\ players'[current_turn + 1] = players[current_turn + 1]
          /\ attack_hilight' = <<>>
          /\ selected_character' = NoCharacter]_vars

\* an attack has left its target hurt and alive, every other character whole
C21Witness ==
    /\ last = [op |-> "execute_attack", ok |-> TRUE]
    /\ scene = "game"
    /\ attack_hilight = <<>>
    /\ selected_character = NoCharacter
    /\ \E target \in Characters :
          /\ TeamOf(target) = current_turn
          /\ chars[target].health > 0
          /\ chars[target].health < Stats(target).health
          /\ \A u \in Characters \ {target} :
                 chars[u].health = Stats(u).health

\* the list _points_in_range would return if the rows off the grid were
\* left out instead of clamped
RECURSIVE points_in_range_dropped(_, _, _)
points_in_range_dropped(column, row, length) ==
    IF ~(0 <= column /\ column < MAP_HEIGHT) THEN <<>>
    ELSE IF length = 0 THEN << <<column, row>> >>
    ELSE points_in_range_dropped(column - 1, row, length - 1)
         \o SelectSeq([i \in 1..(2 * length + 1) |->
                          <<column, row - length + (i - 1)>>],
                      LAMBDA c : 0 <= c[2] /\ c[2] <= MAP_WIDTH - 1)
         \o points_in_range_dropped(column + 1, row, length - 1)

\* C22 as stated: on the grid of the game there are an in-bounds origin and a
\* radius for which the set of cells with the rows clamped differs from the
\* set with the rows off the grid dropped.
ClampChangesReach ==
    (MAP_WIDTH = MapSize /\ MAP_HEIGHT = MapSize) =>
        \E column \in 0..(MAP_WIDTH - 1), row \in 0..(MAP_HEIGHT - 1),
           length \in 0..MaxRadius :
            Elems(points_in_range(column, row, length))
                # Elems(points_in_range_dropped(column, row, length))

\* C22 amended: on a square grid, for every in-bounds origin and radius, the
\* set of cells _points_in_range returns with the rows clamped is the set it
\* would return with the rows off the grid dropped; clamping only repeats edge
\* cells in the list, once more for each row that lies off the grid.
ClampOnlyRepeats ==
    (range_call.called /\ MAP_WIDTH = MAP_HEIGHT) =>
        LET dropped == points_in_range_dropped(
                           range_call.column, range_call.row, range_call.length)
        IN  /\ Elems(range_call.result) = Elems(dropped)
            /\ Len(range_call.result) >= Len(dropped)
            /\ Len(range_call.result) > Len(dropped) <=>
                   \/ range_call.row - range_call.length < 0
                   \/ range_call.row + range_call.length > MAP_HEIGHT - 1

\* a diamond cut by the lower edge: rows were clamped, cells repeated, the set
\* of cells the same as with the rows dropped
C22Witness ==
    /\ range_call.called
    /\ MAP_WIDTH = MAP_HEIGHT /\ MAP_WIDTH >= 4
    /\ range_call.length = 2
    /\ range_call.row = 1
    /\ range_call.column = 2
    /\ Len(range_call.result) > Cardinality(Elems(range_call.result))
    /\ Elems(range_call.result)
           = Elems(points_in_range_dropped(range_call.column, range_call.row,
                                           range_call.length))

\* the characters of team t (0 or 1) with health left
LivingOf(t) == {u \in Characters : TeamOf(u) = t /\ chars[u].health > 0}

\* C23: both teams starting with a character, each team has a roster that is
\* not empty and a living character as long as the match has not ended; a
\* roster becomes empty only in the step that ends the match.
BothTeamsAliveUntilTheEnd ==
    [][/\ scene' = "game" =>
              \A t \in 1..TEAM_COUNT :
                  players'[t] # <<>> /\ LivingOf(t - 1)' # {}
       /\ \A t \in 1..TEAM_COUNT :
              (players[t] # <<>> /\ players'[t] = <<>>) =>
                  scene = "game" /\ scene' = "victory"]_vars

\* a team has lost one of its two characters and the match goes on
C23Witness ==
    /\ scene = "game"
    /\ last.op \in {"open_action_menu", "menu_action"}
    /\ \E t \in 1..TEAM_COUNT :
          /\ Len(players[t]) = 1
          /\ Cardinality(LivingOf(t - 1)) = 1
          /\ Len(players[3 - t]) = TEAM_SIZE

\* C24: in ACTION_MODE the selected cell is the cell of the selected
\* character, so that in_range.remove(self.selected) in _initiate_attack finds
\* the cell in the list and never raises.
MenuOpensOnTheCharacter ==
    /\ mode = ACTION_MODE =>
          /\ selected_character # NoCharacter
          /\ selected = chars[selected_character].pos
          /\ In(selected,
                points_in_range(selected[1], selected[2],
                                Stats(selected_character).range))
    /\ scene # "error"

\* Attack was chosen in the action menu, in a turn after the first: the
\* selection is on the attacker, the removal went through
C24Witness ==
    /\ last.op = "menu_action"
    /\ mode = ATTACK_TARGET_MODE
    /\ scene = "game"
    /\ selected = chars[selected_character].pos
    /\ cursor_pos = 1
    /\ actions >= 1

\* C25: whatever the attacker's strength, the damage of a resolved attack is
\* at least 1 and at most max(1, defense - 1); against a defense of 1 or 2 it
\* is exactly 1.
DamageBoundedByDefense ==
    combat.resolved =>
        /\ 1 <= combat.dealt
        /\ combat.dealt <= Max(1, combat.defense - 1)
        /\ combat.defense <= 2 => combat.dealt = 1

\* the bound is met: the strongest attacker rolled 0, the defender its most
C25Witness ==
    /\ combat.resolved
    /\ combat.strength = MaxStat
    /\ combat.defense >= 3
    /\ combat.attack = 0
    /\ combat.dealt = combat.defense - 1

\* C26: a new match starts with the first team to act, in SELECT_MODE, with no
\* selected character and no highlights, the selection on the cell of the
\* first character of the first team's roster, or of its second character if
\* the first stands on (0,0).
NewMatch ==
    last.op = "init" =>
        LET team == players[1]
        IN  /\ scene = "game"
            /\ current_turn = 0
            /\ mode = SELECT_MODE
            /\ selected_character = NoCharacter
            /\ movement_hilight = <<>>
            /\ attack_hilight = <<>>
            /\ selected = IF chars[team[1]].pos = <<0, 0>>
                          THEN chars[team[2]].pos
                          ELSE chars[team[1]].pos

\* a new match whose first character stands on (0,0): the second is selected
C26Witness ==
    /\ last.op = "init"
    /\ actions = 0
    /\ chars[players[1][1]].pos = <<0, 0>>
    /\ selected = chars[players[1][2]].pos
    /\ selected # <<0, 0>>

=============================================================================
